---- MODULE Spec2Model ----
(***************************************************************************)
(* Model of src/land.py: the land-tax notice extractor.                    *)
(*                                                                         *)
(* A Python str is a sequence of one-character strings.  A missing cell    *)
(* (pandas NaN) is the value NaN, which is no str; a cell of a table read  *)
(* by tabula is NaN or a non-empty str.  A pandas DataFrame is a record    *)
(* [ncols, rows] while it is a raw table, and a sequence of rows           *)
(* (functions from column name to cell) once its columns are named.        *)
(*                                                                         *)
(* A run of main() over a batch of n files is n ProcessFile steps, one per *)
(* iteration of the loop of line 124, followed by Finish, the aggregation  *)
(* of lines 155-180.  An exception nothing catches leaves main(): pc       *)
(* becomes "aborted".  An operator that can raise returns a record with a  *)
(* field `raised`.                                                         *)
(***************************************************************************)
EXTENDS Integers, Sequences, FiniteSets, TLC

VARIABLES
    pc,                  \* where main() is: "loop", "done", "aborted"; or "call"/"return"
    pdf_files,           \* the uploaded documents main() has iterated over so far
    pattern_values_list, \* main(): the FieldMaps accumulated over the batch
    appended_tables,     \* main(): the processed tables accumulated over the batch
    pid_result,          \* main(): final_result after the PID column is set (line 161)
    final_result,        \* main(): what is displayed at the end (line 178 or 180)
    log,                 \* the st.warning / st.error messages issued, in order
    arg,                 \* the argument of the function applied on its own
    ret                  \* its return value

vars == <<pc, pdf_files, pattern_values_list, appended_tables, pid_result,
          final_result, log, arg, ret>>

(***************************************************************************)
(* Values                                                                  *)
(***************************************************************************)
NaN == <<"NaN">>
TypeError == <<"TypeError">>
None == <<"None">>
Nothing == [shown |-> "nothing", rows |-> <<>>]

isna(x) == x = NaN
notna(x) == x # NaN

Min(a, b) == IF a < b THEN a ELSE b
Max(a, b) == IF a > b THEN a ELSE b

\* s[-n:] for n >= 0: the slice starts at len(s) - n, clipped to 0; -0 is 0,
\* so s[-0:] is the whole of s.
SliceLast(s, n) ==
    LET start == IF n = 0 THEN 0 ELSE Max(Len(s) - n, 0)
    IN  SubSeq(s, start + 1, Len(s))

\* s[:n] for n >= 0
SliceFirst(s, n) == SubSeq(s, 1, Min(n, Len(s)))

\* str(x) of a cell: a str is itself, NaN prints as "nan"
str(x) == IF isna(x) THEN <<"n","a","n">> ELSE x

Range(s) == {s[i] : i \in 1..Len(s)}

UpperCase == <<"A","B","C","D","E","F","G","H","I","J","K","L","M",
               "N","O","P","Q","R","S","T","U","V","W","X","Y","Z">>
LowerCase == <<"a","b","c","d","e","f","g","h","i","j","k","l","m",
               "n","o","p","q","r","s","t","u","v","w","x","y","z">>

ToLower == [c \in Range(UpperCase) |->
               LowerCase[CHOOSE i \in 1..26 : UpperCase[i] = c]]

LowerChar(c) == IF c \in DOMAIN ToLower THEN ToLower[c] ELSE c

\* s.lower()
lower(s) == [i \in 1..Len(s) |-> LowerChar(s[i])]

\* s.find(t): the lowest index (from 0) at which t occurs in s, or -1
find(s, t) ==
    LET hits == {i \in 0..(Len(s) - Len(t)) : SubSeq(s, i + 1, i + Len(t)) = t}
    IN  IF hits = {} THEN -1 ELSE CHOOSE i \in hits : \A j \in hits : i <= j

(***************************************************************************)
(* Table Normalizer: process_and_append_tables                             *)
(***************************************************************************)
ColumnNames == <<"Land Item No.", "Land Item and Property ID", "Notes", "% Owned",
                 "Land Taxable Value $", "Surcharge Taxable Value $",
                 "Year 1", "Year 2", "Year 3", "Average Land Value $", "Filename">>

HeaderRows == 3
ExpectedColumns == 10

\* A row of the raw table with the filename appended and the columns renamed.
NamedRow(cells, pdf_filename) ==
    LET all == Append(cells, pdf_filename)
    IN  [c \in Range(ColumnNames) |->
            all[CHOOSE i \in 1..Len(ColumnNames) : ColumnNames[i] = c]]

\* (a variant of Year3Lambda that takes the leading characters)
Year3LambdaHead(row) ==
    IF isna(row["Year 3"]) /\ ~isna(row["Year 2"])
    THEN IF isna(row["Year 1"]) THEN TypeError
         ELSE SliceFirst(row["Year 2"], Len(row["Year 1"]))
    ELSE row["Year 3"]

\* line 83, the lambda: len(NaN) raises TypeError
Year3Lambda(row) ==
    IF isna(row["Year 3"]) /\ ~isna(row["Year 2"])
    THEN IF isna(row["Year 1"]) THEN TypeError
         ELSE SliceLast(row["Year 2"], Len(row["Year 1"]))
    ELSE row["Year 3"]

\* line 84, the lambda: NaN[:n] raises TypeError
Year2Lambda(row) ==
    IF notna(row["Year 1"])
    THEN IF isna(row["Year 2"]) THEN TypeError
         ELSE SliceFirst(row["Year 2"], Len(str(row["Year 1"])))
    ELSE row["Year 2"]

\* lines 83-84 on a table with its columns named: the two apply(axis=1) passes,
\* each over all rows; an exception in any row leaves the function (raised).
RepairYears(table) ==
    IF \E i \in 1..Len(table) : Year3Lambda(table[i]) = TypeError
    THEN [raised |-> TRUE, rows |-> <<>>]
    ELSE LET t3 == [i \in 1..Len(table) |->
                       [table[i] EXCEPT !["Year 3"] = Year3Lambda(table[i])]]
         IN  IF \E i \in 1..Len(t3) : Year2Lambda(t3[i]) = TypeError
             THEN [raised |-> TRUE, rows |-> <<>>]
             ELSE [raised |-> FALSE,
                   rows |-> [i \in 1..Len(t3) |->
                               [t3[i] EXCEPT !["Year 2"] = Year2Lambda(t3[i])]]]

\* The dtype of a column of a raw table: float64 when every cell of it is NaN,
\* object when some cell is a str.  iloc[3:] and the renaming keep it.
ColumnDtype(table, c) ==
    IF \E r \in 1..Len(table.rows) : notna(table.rows[r][c])
    THEN "object" ELSE "float64"

\* (a variant of HasExpectedColumns that lets wider tables through)
HasAtLeastExpectedColumns(n) == n >= ExpectedColumns

\* line 60: the column count of the table after iloc[3:]
HasExpectedColumns(n) == n = ExpectedColumns

ColumnWarning(pdf_filename) ==
    [level |-> "warning", what |-> "mismatched number of columns", file |-> pdf_filename]

\* table.iloc[3:]: the rows after the first three, the columns as they were
DropHeaderRows(table) ==
    [ncols |-> table.ncols, rows |-> SubSeq(table.rows, HeaderRows + 1, Len(table.rows))]

\* lines 54-95.  The result: the list appended_tables as the loop leaves it, the
\* messages issued, and whether an exception left the function.  A table with
\* no row left after iloc[3:] goes through both apply passes unchanged (an
\* apply over no rows yields an empty Series) and is appended as an empty frame.
\* An appended frame is kept as its rows and the dtype of its "Land Item and
\* Property ID" column, which line 161 depends on.
RECURSIVE process_and_append_tables(_, _, _, _)
process_and_append_tables(filtered_tables, pdf_filename, appended, messages) ==
    IF filtered_tables = <<>>
    THEN [appended_tables |-> appended, log |-> messages, raised |-> FALSE]
    ELSE LET processed_table == DropHeaderRows(Head(filtered_tables))
         IN  IF HasExpectedColumns(processed_table.ncols)
             THEN LET named == [i \in 1..Len(processed_table.rows) |->
                                   NamedRow(processed_table.rows[i], pdf_filename)]
                      repaired == RepairYears(named)
                  IN  IF repaired.raised
                      THEN [appended_tables |-> appended, log |-> messages,
                            raised |-> TRUE]
                      ELSE process_and_append_tables(Tail(filtered_tables),
                               pdf_filename,
                               Append(appended,
                                      [dtype |-> ColumnDtype(Head(filtered_tables), 2),
                                       rows |-> repaired.rows]),
                               messages)
             ELSE process_and_append_tables(Tail(filtered_tables), pdf_filename,
                      appended, Append(messages, ColumnWarning(pdf_filename)))

(***************************************************************************)
(* Table Selector: filter_tables_by_first_cell_value                       *)
(***************************************************************************)
\* DataFrame.empty: some axis has length 0
empty(table) == table.ncols = 0 \/ Len(table.rows) = 0

\* (a variant of FirstCellMatches that compares the cell's letters as they are)
FirstCellMatchesCaseSensitive(table, target) ==
    /\ ~empty(table)
    /\ table.ncols > 0
    /\ find(str(table.rows[1][1]), target) # -1

\* line 51, the condition of the comprehension
FirstCellMatches(table, target) ==
    /\ ~empty(table)
    /\ table.ncols > 0
    /\ find(lower(str(table.rows[1][1])), lower(target)) # -1

filter_tables_by_first_cell_value(tables, target) ==
    LET keep(table) == FirstCellMatches(table, target)
    IN  SelectSeq(tables, keep)

(***************************************************************************)
(* Field Extractor: read_and_extract_patterns                              *)
(***************************************************************************)
\* lines 105-114: each regex is its label followed by (.*)
patterns ==
    <<[name |-> "Name",
       label |-> <<"N","a","m","e",":">>],
      [name |-> "Client ID",
       label |-> <<"C","l","i","e","n","t"," ","I","D",":">>],
      [name |-> "Correspondence ID",
       label |-> <<"C","o","r","r","e","s","p","o","n","d","e","n","c","e"," ","I","D",":">>],
      [name |-> "Issue date",
       label |-> <<"I","s","s","u","e"," ","d","a","t","e",":">>],
      [name |-> "Aggregated taxable land value",
       label |-> <<"A","g","g","r","e","g","a","t","e","d"," ","t","a","x","a","b","l","e"," ","l","a","n","d"," ","v","a","l","u","e">>],
      [name |-> "Less threshold",
       label |-> <<"L","e","s","s"," ","t","h","r","e","s","h","o","l","d">>],
      [name |-> "Subtotal",
       label |-> <<"S","u","b","t","o","t","a","l">>],
      [name |-> "Total tax payable",
       label |-> <<"T","o","t","a","l"," ","t","a","x"," ","p","a","y","a","b","l","e">>]>>

TesseractError == <<"TesseractError">>

Whitespace == {" ", "\t", "\n", "\r"}

\* s.strip()
lstrip(s) ==
    LET kept == {i \in 1..Len(s) : s[i] \notin Whitespace}
    IN  IF kept = {} THEN <<>>
        ELSE SubSeq(s, CHOOSE i \in kept : \A j \in kept : i <= j, Len(s))

rstrip(s) ==
    LET kept == {i \in 1..Len(s) : s[i] \notin Whitespace}
    IN  IF kept = {} THEN <<>>
        ELSE SubSeq(s, 1, CHOOSE i \in kept : \A j \in kept : i >= j)

\* (a variant of strip that leaves trailing whitespace)
strip_left_only(s) == lstrip(s)

strip(s) == rstrip(lstrip(s))

\* What (.*) captures from `rest`: '.' matches any character but a newline,
\* and the star is greedy.
DotStar(rest) ==
    LET stops == {i \in 1..Len(rest) : rest[i] = "\n"}
    IN  IF stops = {} THEN rest
        ELSE SubSeq(rest, 1, (CHOOSE i \in stops : \A j \in stops : i <= j) - 1)

\* line 36: re.search(label(.*), text, re.IGNORECASE): the leftmost place where
\* the label occurs, letter case ignored.  None when there is none, else group(1).
search(label, text) ==
    LET at == find(lower(text), lower(label))
    IN  IF at = -1 THEN None
        ELSE DotStar(SubSeq(text, at + Len(label) + 1, Len(text)))

\* line 37
PatternValue(label, text) ==
    LET match == search(label, text)
    IN  IF match # None THEN strip(match) ELSE <<>>

\* lines 34-37: the dict, as its (key, value) pairs in insertion order
ExtractValues(pats, text) ==
    [i \in 1..Len(pats) |-> <<pats[i].name, PatternValue(pats[i].label, text)>>]

\* lines 21-31: the page texts appended in page order; image_to_string may raise
RECURSIVE RecognizedText(_)
RecognizedText(pages) ==
    IF pages = <<>> THEN <<>>
    ELSE IF Head(pages) = TesseractError THEN TesseractError
    ELSE LET rest == RecognizedText(Tail(pages))
         IN  IF rest = TesseractError THEN TesseractError ELSE Head(pages) \o rest

\* lines 12-39, pdf_data given as what recognition yields for each page
\* [raised, pattern_values]
read_and_extract_patterns(pages, pats) ==
    LET text == RecognizedText(pages)
    IN  IF text = TesseractError
        THEN [raised |-> TRUE, pattern_values |-> <<>>]
        ELSE [raised |-> FALSE, pattern_values |-> ExtractValues(pats, text)]

(***************************************************************************)
(* The Year repair on its own: one named row in, the repaired table out.   *)
(***************************************************************************)
MaxYear1Len == 2
MaxYear2Len == 4
YearDigits == {"2", "3"}

Strings(alphabet, lo, hi) ==
    UNION {[1..n -> alphabet] : n \in lo..hi}

Filler == <<"x">>
ExampleName == <<"a",".","p","d","f">>

YearRow(lin, lipid, y1, y2, y3) ==
    NamedRow(<<lin, lipid, Filler, Filler, Filler, Filler, y1, y2, y3, Filler>>,
             ExampleName)

RepairInputs ==
    {YearRow(<<"1">>, <<"L","O","T"," ","5">>, y1, y2, y3) :
        y1 \in {NaN} \cup Strings(YearDigits, 1, MaxYear1Len),
        y2 \in {NaN} \cup Strings(YearDigits, 1, MaxYear2Len),
        y3 \in {NaN, <<"3">>, <<"2","3">>}}
    \cup {YearRow(<<"1">>, <<"L","O","T"," ","5">>, <<"2","0","2","2">>,
                  <<"2","0","2","2","2","0","2","3">>, y3) :
             y3 \in {NaN, <<"2","0","2","3">>}}

Unused ==
    /\ pdf_files = <<>>
    /\ pattern_values_list = <<>>
    /\ appended_tables = <<>>
    /\ pid_result = <<>>
    /\ final_result = Nothing
    /\ log = <<>>

InitRepair ==
    /\ pc = "call"
    /\ arg \in RepairInputs
    /\ ret = None
    /\ Unused

Repair ==
    /\ pc = "call"
    /\ ret' = RepairYears(<<arg>>)
    /\ pc' = "return"
    /\ UNCHANGED <<arg, pdf_files, pattern_values_list, appended_tables,
                   pid_result, final_result, log>>

NextRepair == Repair

SpecRepair == InitRepair /\ [][NextRepair]_vars

(***************************************************************************)
(* The Field Extractor on its own: page texts in, FieldMap out.            *)
(***************************************************************************)
MaxPages == 3

PageTexts ==
    { <<"N","a","m","e",":">>,
      <<"n","a","m","e",":"," ","B","o","b"," ","\n">>,
      <<" ","A","l","\t">>,
      <<"\n">>,
      <<"S","u","b","t","o","t","a","l"," ","5","\n","T","o","t","a","l"," ","t","a","x"," ","p","a","y","a","b","l","e"," ","7">>,
      <<>>,
      <<"C","L","I","E","N","T"," ","I","D",":","\n">>,
      TesseractError }

SeqsUpTo(S, n) == UNION {[1..k -> S] : k \in 0..n}

InitExtract ==
    /\ pc = "call"
    /\ arg \in SeqsUpTo(PageTexts, MaxPages)
    /\ ret = None
    /\ Unused

Extract ==
    /\ pc = "call"
    /\ ret' = read_and_extract_patterns(arg, patterns)
    /\ pc' = "return"
    /\ UNCHANGED <<arg, pdf_files, pattern_values_list, appended_tables,
                   pid_result, final_result, log>>

NextExtract == Extract

SpecExtract == InitExtract /\ [][NextExtract]_vars

(***************************************************************************)
(* The Table Selector on its own.                                          *)
(***************************************************************************)
MaxRawTables == 3

target_substring == <<"L","a","n","d">>

\* a raw table of the given shape whose first cell is `first`, the rest missing
Grid(first, ncols, nrows) ==
    [ncols |-> ncols,
     rows |-> [r \in 1..nrows |->
                 [c \in 1..ncols |-> IF r = 1 /\ c = 1 THEN first ELSE NaN]]]

FirstCells ==
    { <<"L","A","N","D"," ","T","A","X"," ","L","I","A","B","I","L","I","T","Y">>,
      <<"R","a","t","e","s"," ","S","u","m","m","a","r","y">>,
      <<"l","a","n","d">>,
      <<"L","a","n">>,
      <<"I","s","l","a","n","d">>,
      <<"a","n","d"," ","L">>,
      NaN }

RawTables ==
    {Grid(f, 2, 2) : f \in FirstCells}
    \cup {Grid(<<"L","a","n","d">>, 2, 0), Grid(<<"L","a","n","d">>, 0, 2),
          Grid(<<"L","a","n","d">>, 0, 0)}

InitFilter ==
    /\ pc = "call"
    /\ arg \in SeqsUpTo(RawTables, MaxRawTables)
    /\ ret = None
    /\ Unused

Filter ==
    /\ pc = "call"
    /\ ret' = filter_tables_by_first_cell_value(arg, target_substring)
    /\ pc' = "return"
    /\ UNCHANGED <<arg, pdf_files, pattern_values_list, appended_tables,
                   pid_result, final_result, log>>

NextFilter == Filter

SpecFilter == InitFilter /\ [][NextFilter]_vars

(***************************************************************************)
(* main(): the loop over the uploaded files and the final aggregation      *)
(***************************************************************************)
\* what tabula.read_pdf does with a file: it raises, or returns its tables
TabulaError == [raises |-> TRUE, tables |-> <<>>]
Detected(tables) == [raises |-> FALSE, tables |-> tables]

Message(level, what, file) == [level |-> level, what |-> what, file |-> file]

\* line 126: pdf_file.name.lower().endswith('.pdf')
IsPdfName(name) ==
    LET l == lower(name)
    IN  Len(l) >= 4 /\ SubSeq(l, Len(l) - 3, Len(l)) = <<".","p","d","f">>

\* lines 41-48: what tabula.read_pdf returns, or None (and an st.error) when it raises
\* (a variant of extract_tables_from_pdf that swallows the exception unreported)
extract_tables_unreported(pdf_file) ==
    IF pdf_file.tabula.raises
    THEN [is_none |-> TRUE, tables |-> <<>>, log |-> <<>>]
    ELSE [is_none |-> FALSE, tables |-> pdf_file.tabula.tables, log |-> <<>>]

\* (is_none: the return value is None)
extract_tables_from_pdf(pdf_file) ==
    IF pdf_file.tabula.raises
    THEN [is_none |-> TRUE, tables |-> <<>>,
          log |-> <<Message("error", "Error extracting tables", pdf_file.name)>>]
    ELSE [is_none |-> FALSE, tables |-> pdf_file.tabula.tables, log |-> <<>>]

\* `if x:` for a list or a dict
Truthy(x) == x # <<>>

\* lines 124-153: one iteration of the loop, from the state st = [pattern_values_list,
\* appended_tables, log].  raised: an exception left the loop (nothing in main
\* catches it).
LoopBody(st, pdf_file) ==
    IF ~IsPdfName(pdf_file.name)
    THEN [st EXCEPT !.log = Append(@, Message("warning", "Skipping non-PDF file",
                                              pdf_file.name))]
    ELSE
    LET extraction == read_and_extract_patterns(pdf_file.pages, patterns)
        pattern_values == extraction.pattern_values
    IN  IF extraction.raised
        THEN [st EXCEPT !.raised = TRUE]
        ELSE
        LET s1 == IF Truthy(pattern_values)
                  THEN [st EXCEPT !.pattern_values_list =
                           Append(@, Append(pattern_values,
                                            <<"Filename", pdf_file.name>>))]
                  ELSE [st EXCEPT !.log =
                           Append(@, Message("warning", "No values extracted",
                                             pdf_file.name))]
            extracted == extract_tables_from_pdf(pdf_file)
            s2 == [s1 EXCEPT !.log = @ \o extracted.log]
        IN  IF extracted.is_none \/ ~Truthy(extracted.tables)
            THEN s2
            ELSE
            LET filtered_tables ==
                    filter_tables_by_first_cell_value(extracted.tables, target_substring)
            IN  IF filtered_tables # <<>>
                THEN LET r == process_and_append_tables(filtered_tables,
                                  pdf_file.name, s2.appended_tables, s2.log)
                     IN  [s2 EXCEPT !.appended_tables = r.appended_tables,
                                    !.log = r.log,
                                    !.raised = r.raised]
                ELSE [s2 EXCEPT !.log =
                         Append(@, Message("warning", "No tables found with the first cell",
                                           pdf_file.name))]

\* line 157: pd.concat(appended_tables, ignore_index=True), the rows
RECURSIVE ConcatRows(_)
ConcatRows(frames) ==
    IF frames = <<>> THEN <<>> ELSE Head(frames).rows \o ConcatRows(Tail(frames))

\* the dtype of the concatenated "Land Item and Property ID" column: object when
\* a frame that contributes rows (any frame, when none does) has it object
ConcatDtype(frames) ==
    LET full == {i \in 1..Len(frames) : frames[i].rows # <<>>}
        used == IF full = {} THEN 1..Len(frames) ELSE full
    IN  IF \E i \in used : frames[i].dtype = "object" THEN "object" ELSE "float64"

\* s.str.contains("PID") for one cell that is a str (a NaN cell stays NaN)
str_contains(cell, pat) == find(cell, pat) # -1

PidColumns == Range(ColumnNames) \cup {"PID"}

\* (a variant of WithPid without line 161: the shifted column only)
WithPidShiftOnly(rows, dtype) ==
    LET lipid(i) == rows[i]["Land Item and Property ID"]
        shifted(i) == IF i < Len(rows) THEN lipid(i + 1) ELSE NaN
    IN  IF dtype # "object" THEN [raised |-> "AttributeError", rows |-> <<>>]
        ELSE IF \E i \in 1..Len(rows) : isna(lipid(i))
             THEN [raised |-> "ValueError", rows |-> <<>>]
        ELSE [raised |-> "",
              rows |-> [i \in 1..Len(rows) |->
                          [c \in PidColumns |->
                              IF c = "PID" THEN shifted(i) ELSE rows[i][c]]]]

\* lines 160-161.  The .str accessor raises on a float64 column; .loc raises on
\* a boolean mask that holds NaN, which it does where a cell is NaN.
WithPid(rows, dtype) ==
    LET lipid(i) == rows[i]["Land Item and Property ID"]
        shifted(i) == IF i < Len(rows) THEN lipid(i + 1) ELSE NaN
        mask(i) == str_contains(lipid(i), <<"P","I","D">>)
    IN  IF dtype # "object" THEN [raised |-> "AttributeError", rows |-> <<>>]
        ELSE IF \E i \in 1..Len(rows) : isna(lipid(i))
             THEN [raised |-> "ValueError", rows |-> <<>>]
        ELSE [raised |-> "",
              rows |-> [i \in 1..Len(rows) |->
                          [c \in PidColumns |->
                              IF c = "PID"
                              THEN IF mask(i) THEN lipid(i) ELSE shifted(i)
                              ELSE rows[i][c]]]]

\* line 164
dropna(rows, subset) ==
    LET keep(row) == notna(row[subset])
    IN  SelectSeq(rows, keep)

\* a dict as its (key, value) pairs
Keys(dict) == {dict[i][1] : i \in 1..Len(dict)}
Lookup(dict, k) == dict[CHOOSE i \in 1..Len(dict) : dict[i][1] = k][2]

\* line 174: pd.merge(left, right, on="Filename", how="left"): every row of left,
\* in order, joined with each row of right of the same Filename, or with NaN in
\* right's columns when right has none.
RECURSIVE merge_left(_, _)
merge_left(left, right) ==
    IF left = <<>> THEN <<>>
    ELSE LET l == Head(left)
             same(row) == row["Filename"] = Lookup(l, "Filename")
             matches == SelectSeq(right, same)
             joined(row) == [c \in Keys(l) \cup PidColumns |->
                                IF c \in Keys(l) THEN Lookup(l, c) ELSE row[c]]
             missing == [c \in PidColumns |-> NaN]
         IN  (IF matches = <<>> THEN <<joined(missing)>>
              ELSE [i \in 1..Len(matches) |-> joined(matches[i])])
             \o merge_left(Tail(left), right)

\* what main() has displayed: nothing yet, the warning of line 180, or the
\* dataset of line 178
NoData == [shown |-> "No tables found in the provided PDF files.", rows |-> <<>>]
Dataset(rows) == [shown |-> "Final Result", rows |-> rows]

\* lines 155-180: [raised, pid_result, final_result]
Aggregate(frames, fieldmaps) ==
    IF frames # <<>>
    THEN LET withpid == WithPid(ConcatRows(frames), ConcatDtype(frames))
         IN  IF withpid.raised # ""
             THEN [raised |-> TRUE, pid_result |-> <<>>, final_result |-> Nothing]
             ELSE LET kept == dropna(withpid.rows, "Land Item No.")
                  IN  [raised |-> FALSE, pid_result |-> withpid.rows,
                       final_result |->
                          Dataset(IF fieldmaps # <<>>
                                  THEN merge_left(fieldmaps, kept) ELSE kept)]
    ELSE [raised |-> FALSE, pid_result |-> <<>>, final_result |-> NoData]

(***************************************************************************)
(* The batch: the documents a run of main() can be given                   *)
(***************************************************************************)
MaxDocs == 2

DigitChars == <<"1","2","3","4","5","6","7","8","9">>
Lipid5 == <<"L","O","T"," ","5">>
Lipid6 == <<"L","O","T"," ","6">>
PidText == <<"P","I","D"," ","1","2","3","4","5">>
Y2021 == <<"2","0","2","1">>
Y2022 == <<"2","0","2","2">>
Y2023 == <<"2","0","2","3">>
Y20222023 == <<"2","0","2","2","2","0","2","3">>
LandTitle == <<"L","A","N","D"," ","T","A","X"," ","L","I","A","B","I","L","I","T","Y">>
RatesTitle == <<"R","a","t","e","s"," ","S","u","m","m","a","r","y">>

Item(lin, lipid, y1, y2, y3) ==
    <<lin, lipid, Filler, Filler, Filler, Filler, y1, y2, y3, Filler>>
PidRow == <<NaN, PidText, NaN, NaN, NaN, NaN, NaN, NaN, NaN, NaN>>

\* a raw table: a banner row, a row of column titles (or a blank one), a blank
\* row, then the data rows
RawTable(first, ncols, titled, data) ==
    [ncols |-> ncols,
     rows |-> << [c \in 1..ncols |-> IF c = 1 THEN first ELSE NaN],
                 [c \in 1..ncols |-> IF titled THEN <<"h">> ELSE NaN],
                 [c \in 1..ncols |-> NaN] >> \o data]

LandItems ==
    RawTable(LandTitle, 10, TRUE,
             << Item(<<"1">>, Lipid5, Y2021, Y2022, Y2023), PidRow,
                Item(<<"2">>, Lipid6, Y2022, Y20222023, NaN),
                Item(<<"3">>, Lipid5, Y2021, Y2022, Y2023) >>)
LandPair ==
    RawTable(LandTitle, 10, FALSE, << Item(<<"1">>, Lipid5, Y2021, Y2022, Y2023), PidRow >>)
RatesSummary ==
    RawTable(RatesTitle, 10, TRUE, << Item(<<"1">>, Lipid5, Y2021, Y2022, Y2023) >>)
LandNine ==
    RawTable(LandTitle, 9, TRUE, << <<Filler, Filler, Filler, Filler, Filler,
                                      Filler, Filler, Filler, Filler>> >>)
LandTitlesOnly == RawTable(LandTitle, 10, TRUE, <<>>)
LandBannerOnly == Grid(LandTitle, 10, 2)
LandBadYear ==
    RawTable(LandTitle, 10, TRUE, << Item(<<"1">>, Lipid5, NaN, Y2022, NaN) >>)
LandNoId ==
    RawTable(LandTitle, 10, TRUE, << Item(<<"1">>, NaN, Y2021, Y2022, Y2023) >>)

TabulaOutcomes ==
    { TabulaError } \cup
    { Detected(tables) : tables \in
        { <<>>, <<LandItems>>, <<LandPair>>, <<RatesSummary>>,
          <<LandNine>>, <<LandNine, LandPair>>, <<LandTitlesOnly>>,
          <<LandBannerOnly>>, <<LandBadYear>>, <<LandNoId>> } }

NamePage == <<"N","a","m","e",":"," ","B","o","b"," ","\n","S","u","b","t","o","t","a","l"," ","5","\n">>
IdPage == <<"C","l","i","e","n","t"," ","I","D",":"," ","7","\n">>

BlankPage == <<" ","\n">>

\* what recognition yields for the pages of a file
PageOutcomes == { <<IdPage, NamePage>>, <<BlankPage>>, <<NamePage, TesseractError>> }

Document(i, ext, pages, tabula) ==
    [name |-> <<"d", DigitChars[i]>> \o ext, pages |-> pages, tabula |-> tabula]

\* the i-th file of the batch: filenames are unique within a batch.  A file
\* named .txt is never read, so one content stands for all.
Documents(i) ==
    {Document(i, <<".","p","d","f">>, pages, tabula) :
        pages \in PageOutcomes, tabula \in TabulaOutcomes}
    \cup {Document(i, <<".","P","D","F">>, <<NamePage>>, Detected(<<LandPair>>)),
          Document(i, <<".","t","x","t">>, <<NamePage>>, Detected(<<LandPair>>))}

Init ==
    /\ pc = "loop"
    /\ pdf_files = <<>>
    /\ pattern_values_list = <<>>
    /\ appended_tables = <<>>
    /\ pid_result = <<>>
    /\ final_result = Nothing
    /\ log = <<>>
    /\ arg = None
    /\ ret = None

\* lines 124-153: the loop takes the next uploaded file
ProcessFile ==
    /\ pc = "loop"
    /\ Len(pdf_files) < MaxDocs
    /\ \E pdf_file \in Documents(Len(pdf_files) + 1) :
         LET st == LoopBody([pattern_values_list |-> pattern_values_list,
                             appended_tables |-> appended_tables,
                             log |-> log, raised |-> FALSE], pdf_file)
         IN  /\ pdf_files' = Append(pdf_files, pdf_file)
             /\ pattern_values_list' = st.pattern_values_list
             /\ appended_tables' = st.appended_tables
             /\ log' = st.log
             /\ pc' = IF st.raised THEN "aborted" ELSE "loop"
    /\ UNCHANGED <<pid_result, final_result, arg, ret>>

\* lines 116, 155-180: the loop is over (the batch was not empty)
Finish ==
    /\ pc = "loop"
    /\ pdf_files # <<>>
    /\ LET a == Aggregate(appended_tables, pattern_values_list)
       IN  /\ pid_result' = a.pid_result
           /\ final_result' = a.final_result
           /\ pc' = IF a.raised THEN "aborted" ELSE "done"
           /\ log' = IF a.final_result = NoData
                     THEN Append(log, Message("warning", "No tables found", <<>>))
                     ELSE log
    /\ UNCHANGED <<pdf_files, pattern_values_list, appended_tables, arg, ret>>

Next == ProcessFile \/ Finish

Spec == Init /\ [][Next]_vars

(***************************************************************************)
(* The Table Normalizer on its own: the selected tables of one document,   *)
(* appended to a collection that may already hold a frame.                 *)
(***************************************************************************)
MaxTables == 3

SelectedTables ==
    { LandPair, LandItems, LandNine, LandTitlesOnly, LandBannerOnly, LandBadYear,
      RawTable(LandTitle, 11, TRUE, << Append(PidRow, Filler) >>) }

PriorFrame ==
    [dtype |-> "object",
     rows |-> << NamedRow(Item(<<"9">>, Lipid6, Y2021, Y2022, Y2023),
                          <<"d","0",".","p","d","f">>) >>]

InitNormalize ==
    /\ pc = "call"
    /\ arg \in (SeqsUpTo(SelectedTables, MaxTables) \ {<<>>})
    /\ appended_tables \in {<<>>, <<PriorFrame>>}
    /\ ret = appended_tables
    /\ pdf_files = <<>>
    /\ pattern_values_list = <<>>
    /\ pid_result = <<>>
    /\ final_result = Nothing
    /\ log = <<>>

Normalize ==
    /\ pc = "call"
    /\ LET r == process_and_append_tables(arg, ExampleName, appended_tables, log)
       IN  /\ appended_tables' = r.appended_tables
           /\ log' = r.log
           /\ pc' = IF r.raised THEN "aborted" ELSE "return"
    /\ UNCHANGED <<arg, ret, pdf_files, pattern_values_list, pid_result, final_result>>

NextNormalize == Normalize

SpecNormalize == InitNormalize /\ [][NextNormalize]_vars

(***************************************************************************)
(* The claims                                                              *)
(***************************************************************************)
\* the n last / n first characters of s (all of s when it is shorter)
LastChars(s, n) ==
    LET k == Min(n, Len(s)) IN [i \in 1..k |-> s[Len(s) - k + i]]
FirstChars(s, n) ==
    LET k == Min(n, Len(s)) IN [i \in 1..k |-> s[i]]

\* s contains t, letter case ignored or not
ContainsText(s, t, ignore_case) ==
    \E off \in 0..(Len(s) - Len(t)) :
        \A k \in 1..Len(t) :
            IF ignore_case THEN LowerChar(s[off + k]) = LowerChar(t[k])
            ELSE s[off + k] = t[k]

\* the k-th smallest element of a set of numbers
Kth(S, k) == CHOOSE i \in S : Cardinality({j \in S : j <= i}) = k

SameYears(a, b) ==
    a["Year 1"] = b["Year 1"] /\ a["Year 2"] = b["Year 2"] /\ a["Year 3"] = b["Year 3"]

PresentRows(rows) == {i \in 1..Len(rows) : notna(rows[i]["Land Item No."])}

\* C1: with unique filenames the final result has exactly one row per
\* concatenated NormalizedRow whose "Land Item No." is present, so a document
\* that yields no table row contributes no output row.
C1_OneRowPerNormalizedRow ==
    (pc = "done" /\ final_result.shown = "Final Result") =>
        /\ Len(final_result.rows) = Cardinality(PresentRows(ConcatRows(appended_tables)))
        /\ \A i \in 1..Len(final_result.rows) :
               notna(final_result.rows[i]["Land Item No."])

\* C2: the Year repair leaves "Year 1", "Year 2" and "Year 3" of a row unchanged
\* whenever its "Year 3" is present, and whenever "Year 1" and "Year 2" are both
\* missing.
C2_RepairNoOpWhenYear3Present ==
    (pc = "return"
     /\ (notna(arg["Year 3"]) \/ (isna(arg["Year 1"]) /\ isna(arg["Year 2"])))) =>
        /\ ~ret.raised
        /\ SameYears(ret.rows[1], arg)

\* C3: for a row whose "Year 3" is missing and whose "Year 1" and "Year 2" are
\* present, the repair sets "Year 3" to the last len(Year 1) characters of the
\* original "Year 2" and "Year 2" to its first len(Year 1) characters, and
\* leaves "Year 1" as it was.
C3_YearSplit ==
    (pc = "return"
     /\ isna(arg["Year 3"]) /\ notna(arg["Year 1"]) /\ notna(arg["Year 2"])) =>
        /\ ~ret.raised
        /\ Len(ret.rows) = 1
        /\ ret.rows[1]["Year 3"] = LastChars(arg["Year 2"], Len(arg["Year 1"]))
        /\ ret.rows[1]["Year 2"] = FirstChars(arg["Year 2"], Len(arg["Year 1"]))
        /\ ret.rows[1]["Year 1"] = arg["Year 1"]

C3_Witness ==
    /\ pc = "return"
    /\ arg["Year 1"] = Y2022 /\ arg["Year 2"] = Y20222023 /\ isna(arg["Year 3"])
    /\ ~ret.raised
    /\ ret.rows[1]["Year 3"] = Y2023
    /\ ret.rows[1]["Year 2"] = Y2022
    /\ ret.rows[1]["Year 1"] = Y2022

\* C4: once the aggregation has gone through, every row of the concatenated
\* sequence has as PID its own "Land Item and Property ID" when that contains
\* "PID", and otherwise that of the next row of the sequence (missing for the
\* last row); the rows that survive the drop keep the PID computed this way.
ExpectedPid(rows, i) ==
    IF ContainsText(rows[i]["Land Item and Property ID"], <<"P","I","D">>, FALSE)
    THEN rows[i]["Land Item and Property ID"]
    ELSE IF i < Len(rows) THEN rows[i + 1]["Land Item and Property ID"] ELSE NaN

Identified(rows) ==
    LET present(row) == notna(row["Land Item No."])
        kept == SelectSeq(rows, present)
    IN  [i \in 1..Len(kept) |->
            <<kept[i]["Filename"], kept[i]["Land Item No."],
              kept[i]["Land Item and Property ID"], kept[i]["PID"]>>]

C5_WrongWidthContributesNothing ==
    (pc \in {"return", "aborted"}) =>
        LET prior == ret
            new == SubSeq(appended_tables, Len(prior) + 1, Len(appended_tables))
            ten == {i \in 1..Len(arg) : arg[i].ncols = 10}
        IN  /\ Len(appended_tables) >= Len(prior)
            /\ SubSeq(appended_tables, 1, Len(prior)) = prior
            /\ Len(new) <= Cardinality(ten)
            /\ Len(log) <= Len(arg) - Cardinality(ten)
            /\ (pc = "return") =>
                   /\ Len(new) = Cardinality(ten)
                   /\ Len(log) = Len(arg) - Cardinality(ten)
            /\ \A m \in 1..Len(log) :
                   log[m].level = "warning" /\ log[m].file = ExampleName
            /\ \A k \in 1..Len(new) :
                   LET from == arg[Kth(ten, k)]
                   IN  /\ Len(new[k].rows) = Max(Len(from.rows) - 3, 0)
                       /\ \A r \in 1..Len(new[k].rows) :
                              /\ new[k].rows[r]["Filename"] = ExampleName
                              /\ notna(new[k].rows[r]["Filename"])
                              /\ new[k].rows[r]["Land Item No."] = from.rows[r + 3][1]
                              /\ new[k].rows[r]["Average Land Value $"]
                                     = from.rows[r + 3][10]

C5_Witness ==
    /\ pc = "return"
    /\ arg = <<LandNine, LandPair>>
    /\ ret = <<PriorFrame>>
    /\ Len(appended_tables) = 2
    /\ appended_tables[1] = PriorFrame
    /\ Len(appended_tables[2].rows) = 2
    /\ Len(log) = 1

\* C6: when the table-detection service raises for a document, the error is
\* reported for that file, the document adds no frame, and the loop goes on to
\* the next file: the step does not leave main().
HasFailedPage(pdf_file) ==
    \E p \in 1..Len(pdf_file.pages) : pdf_file.pages[p] = TesseractError

C6_TabulaFailureGoesOn ==
    [][ (pc = "loop" /\ Len(pdf_files') = Len(pdf_files) + 1
         /\ IsPdfName(pdf_files'[Len(pdf_files')].name)
         /\ ~HasFailedPage(pdf_files'[Len(pdf_files')])
         /\ pdf_files'[Len(pdf_files')].tabula.raises) =>
            /\ pc' = "loop"
            /\ appended_tables' = appended_tables
            /\ Len(pattern_values_list') = Len(pattern_values_list) + 1
            /\ Len(log') = Len(log) + 1
            /\ log'[Len(log')].level = "error"
            /\ log'[Len(log')].file = pdf_files'[Len(pdf_files')].name ]_vars

C6_Witness ==
    /\ pc = "done"
    /\ Len(pdf_files) = 2
    /\ pdf_files[1].tabula.raises
    /\ IsPdfName(pdf_files[1].name)
    /\ pdf_files[2].tabula = Detected(<<LandPair>>)
    /\ Len(pattern_values_list) = 2
    /\ \E m \in 1..Len(log) : log[m].level = "error" /\ log[m].file = pdf_files[1].name
    /\ \E j \in 1..Len(final_result.rows) :
           /\ final_result.rows[j]["Filename"] = pdf_files[2].name
           /\ notna(final_result.rows[j]["Land Item No."])

\* C7: when text recognition fails on a page of a document, there is no hard
\* failure: the document still yields a FieldMap from its other pages and the
\* batch goes on.
C7_OcrFailureIsNotFatal ==
    \A i \in 1..Len(pdf_files) :
        (IsPdfName(pdf_files[i].name) /\ HasFailedPage(pdf_files[i])) =>
            /\ pc # "aborted"
            /\ \E j \in 1..Len(pattern_values_list) :
                   Lookup(pattern_values_list[j], "Filename") = pdf_files[i].name

\* C8: at the end of a batch the output is the "no data" signal whenever the
\* batch produced no NormalizedRow at all, and the result dataset otherwise.
C8_NoDataIffNoRows ==
    (pc = "done") =>
        /\ final_result.shown \in {NoData.shown, "Final Result"}
        /\ (final_result = NoData) <=> (ConcatRows(appended_tables) = <<>>)

\* C9: the FieldMap has the 8 field names as its keys, in the order of the
\* patterns; a value is the stripped capture of the first match of its pattern,
\* or the empty string when the pattern matches nowhere.
FieldNames ==
    <<"Name", "Client ID", "Correspondence ID", "Issue date",
      "Aggregated taxable land value", "Less threshold", "Subtotal",
      "Total tax payable">>

IsStrippedFirstCapture(text, label, v) ==
    LET matches == {i \in 0..(Len(text) - Len(label)) :
                       \A k \in 1..Len(label) :
                           LowerChar(text[i + k]) = LowerChar(label[k])}
    IN  IF matches = {} THEN v = <<>>
        ELSE LET first == CHOOSE i \in matches : \A j \in matches : i <= j
                 from == first + Len(label) + 1
                 breaks == {i \in from..Len(text) : text[i] = "\n"}
                 to == IF breaks = {} THEN Len(text)
                       ELSE (CHOOSE i \in breaks : \A j \in breaks : i <= j) - 1
             IN  /\ v = <<>> \/ (v[1] \notin Whitespace /\ v[Len(v)] \notin Whitespace)
                 /\ \E a \in from..(to + 1) :
                        /\ \A i \in from..(a - 1) : text[i] \in Whitespace
                        /\ \A i \in (a + Len(v))..to : text[i] \in Whitespace
                        /\ a + Len(v) - 1 <= to
                        /\ \A i \in 1..Len(v) : v[i] = text[a + i - 1]

C9_FieldMapTotal ==
    (pc = "return" /\ \A p \in 1..Len(arg) : arg[p] # TesseractError) =>
        /\ ~ret.raised
        /\ [i \in 1..Len(ret.pattern_values) |-> ret.pattern_values[i][1]] = FieldNames
        /\ \A i \in 1..Len(FieldNames) :
               IsStrippedFirstCapture(RecognizedText(arg), patterns[i].label,
                                      ret.pattern_values[i][2])

C9_Witness ==
    /\ pc = "return"
    /\ arg = << <<"n","a","m","e",":"," ","B","o","b"," ","\n">>,
                <<"S","u","b","t","o","t","a","l"," ","5","\n","T","o","t","a","l"," ","t","a","x"," ","p","a","y","a","b","l","e"," ","7">> >>
    /\ Lookup(ret.pattern_values, "Name") = <<"B","o","b">>
    /\ Lookup(ret.pattern_values, "Subtotal") = <<"5">>
    /\ Lookup(ret.pattern_values, "Total tax payable") = <<"7">>
    /\ Lookup(ret.pattern_values, "Client ID") = <<>>

\* C10: the selector returns exactly the tables that are non-empty, have a
\* column, and whose first cell's text contains the target, letter case ignored,
\* in their original order.
Wanted(table) ==
    /\ Len(table.rows) > 0
    /\ table.ncols >= 1
    /\ ContainsText(IF isna(table.rows[1][1]) THEN <<"n","a","n">> ELSE table.rows[1][1],
                    <<"L","a","n","d">>, TRUE)

C10_SelectorExact ==
    (pc = "return") =>
        LET pos == {i \in 1..Len(arg) : Wanted(arg[i])}
        IN  /\ Len(ret) = Cardinality(pos)
            /\ \A k \in 1..Len(ret) : ret[k] = arg[Kth(pos, k)]

C10_Witness ==
    /\ pc = "return"
    /\ arg = <<Grid(RatesTitle, 2, 2), Grid(LandTitle, 2, 2)>>
    /\ ret = <<Grid(LandTitle, 2, 2)>>

====
